---- MODULE Spec2Model ----
(***************************************************************************)
(* Rhythm game (src/src/main.rs): the Scoreboard, the StartMenu/Playing    *)
(* state flow and the per-frame systems that spawn, move, hit and miss     *)
(* targets.  One frame of the engine's schedule is the sequence            *)
(*   PreUpdate -> StateTransition -> SpawnTargets -> Update -> end of      *)
(*   Update (command buffers applied).                                     *)
(* The systems of the Update stage have no ordering constraints, so they   *)
(* run in any order; commands (despawn, insert NextState) are deferred to  *)
(* the end of the stage.                                                   *)
(***************************************************************************)
EXTENDS Integers, Sequences, FiniteSets

\* ---------------------------------------------------------------- bounds
\* Number of Target entities spawned over a run (entity ids 1..MaxTargets).
MaxTargets == 1
\* Number of hit()/miss() calls in the Scoreboard-only specification.
MaxOps == 9

\* ------------------------------------------------------ program constants
ComboCap == 5
SpawnY == 400
HitLineY == -280
MissY == -350
Speed == 150
\* Time is counted in ticks of 1/TicksPerSecond s, so that
\* 150.0 * delta_seconds is an integer number of pixels.
TicksPerSecond == 150

\* Frame times (in ticks) the engine may report; all positive.
DeltaTicks == {340, 375}

GameStates == {"StartMenu", "Playing", "GameOverMenu"}
Columns == {"Yellow", "Red", "Blue", "Green"}
LaneKeys == {"A", "H", "S", "J", "D", "K", "F", "L"}
\* Sets of lane keys that can be just-pressed in one frame.
KeyInputs == {{}} \cup {{k} : k \in LaneKeys} \cup {{"A", "S"}}
Interactions == {"None", "Hovered", "Clicked"}
\* Mouse over at most one button: <<start button, exit button>>.
MouseInputs ==
    {<<"None", "None">>, <<"Hovered", "None">>, <<"Clicked", "None">>,
     <<"None", "Hovered">>, <<"None", "Clicked">>}

StartMenuSystems == {"close_on_esc", "on_start_button", "on_exit_button"}
PlayingSystems == {"menu_on_esc", "update_targets", "shoot_targets", "update_scoreboard"}
SystemsOf(s) ==
    IF s = "StartMenu" THEN StartMenuSystems
    ELSE IF s = "Playing" THEN PlayingSystems
    ELSE {}

VARIABLES
    state,        \* CurrentState<GameState>
    nextState,    \* NextState<GameState> resource, "None" when absent
    cause,        \* history: what inserted nextState
    initialized,  \* the transition stage has run its first enter systems
    menu,         \* the StartMenu entities: the two buttons
    targets,      \* Target entities by id: [alive, column, y]
    nextId,       \* id of the next entity spawn_targets creates
    crosshairs,   \* columns that have a crosshair entity (Game, no Target)
    scoreDisplay, \* texts of the ScoreDisplay entities (section 1)
    scoreboard,   \* Scoreboard resource [score, combo]
    sbChanged,    \* Scoreboard changed since update_scoreboard last ran
    commands,     \* Commands queued in the Update stage
    pc,           \* stage of the frame
    ran,          \* systems of the Update stage that have run this frame
    keysRead,     \* history: lane keys just pressed, as read by the step just taken
    streak,       \* history: hits since the most recent miss
    hitCount,     \* history: calls of Scoreboard::hit
    missCount,    \* history: calls of Scoreboard::miss
    hits,         \* history: hit events per target id
    misses,       \* history: miss events per target id
    appExit       \* AppExit requested

vars == <<state, nextState, cause, initialized, menu, targets, nextId, crosshairs,
          scoreDisplay, scoreboard, sbChanged, commands, pc, ran, keysRead,
          streak, hitCount, missCount, hits, misses, appExit>>

worldVars == <<state, nextState, cause, initialized, menu, targets, nextId, crosshairs,
               scoreDisplay, sbChanged, commands, pc, ran, keysRead, hits, misses,
               appExit>>

TargetIds == 1..MaxTargets

\* ------------------------------------------------------------- Scoreboard
DefaultScoreboard == [score |-> 0, combo |-> 0]

ScoreboardHit_NoCap(sb) ==
    LET c == sb.combo + 1
    IN  [score |-> sb.score + c, combo |-> c]

ScoreboardHit_OldCombo(sb) ==
    LET c == IF sb.combo < ComboCap THEN sb.combo + 1 ELSE sb.combo
    IN  [score |-> sb.score + sb.combo, combo |-> c]

ScoreboardHit(sb) ==
    LET c == IF sb.combo < ComboCap THEN sb.combo + 1 ELSE sb.combo
    IN  [score |-> sb.score + c, combo |-> c]

ScoreboardMiss_KeepCombo(sb) ==
    [score |-> sb.score - 1, combo |-> sb.combo]

ScoreboardMiss(sb) ==
    LET reset == [sb EXCEPT !.combo = 0]
    IN  [reset EXCEPT !.score = reset.score - (reset.combo + 1)]

RECURSIVE ApplyHits(_, _)
ApplyHits(sb, n) == IF n = 0 THEN sb ELSE ApplyHits(ScoreboardHit(sb), n - 1)

RECURSIVE ApplyMisses(_, _)
ApplyMisses(sb, n) == IF n = 0 THEN sb ELSE ApplyMisses(ScoreboardMiss(sb), n - 1)

\* i32::to_string as a sequence of characters
DigitChar == <<"0", "1", "2", "3", "4", "5", "6", "7", "8", "9">>

RECURSIVE NatToString(_)
NatToString(n) ==
    IF n < 10 THEN <<DigitChar[n + 1]>>
    ELSE Append(NatToString(n \div 10), DigitChar[(n % 10) + 1])

ToString(i) == IF i < 0 THEN <<"-">> \o NatToString(-i) ELSE NatToString(i)

\* --------------------------------------------------------------- entities
NoTarget == [alive |-> FALSE, column |-> "Yellow", y |-> 0]
NoButton == [interaction |-> "None", old |-> "None", changed |-> FALSE]
NoMenu == [spawned |-> FALSE, start |-> NoButton, exit |-> NoButton]
NoCommands == [despawn |-> {}, nextState |-> "None"]

Alive(i) == targets[i].alive
AliveIds == {i \in TargetIds : targets[i].alive}

Init ==
    /\ state = "StartMenu"
    /\ nextState = "None"
    /\ cause = "none"
    /\ initialized = FALSE
    /\ menu = NoMenu
    /\ targets = [i \in TargetIds |-> NoTarget]
    /\ nextId = 1
    /\ crosshairs = {}
    /\ scoreDisplay = {}
    /\ scoreboard = DefaultScoreboard
    /\ sbChanged = TRUE
    /\ commands = NoCommands
    /\ pc = "PreUpdate"
    /\ ran = {}
    /\ keysRead = {}
    /\ streak = 0
    /\ hitCount = 0
    /\ missCount = 0
    /\ hits = [i \in TargetIds |-> 0]
    /\ misses = [i \in TargetIds |-> 0]
    /\ appExit = FALSE

\* ------------------------------------------- Scoreboard-only specification
\* Any sequence of hit() and miss() calls on the default Scoreboard.
CallHit ==
    /\ hitCount + missCount < MaxOps
    /\ scoreboard' = ScoreboardHit(scoreboard)
    /\ streak' = streak + 1
    /\ hitCount' = hitCount + 1
    /\ UNCHANGED <<missCount, worldVars>>

CallMiss ==
    /\ hitCount + missCount < MaxOps
    /\ scoreboard' = ScoreboardMiss(scoreboard)
    /\ streak' = 0
    /\ missCount' = missCount + 1
    /\ UNCHANGED <<hitCount, worldVars>>

ScoreNext == CallHit \/ CallMiss

ScoreSpec == Init /\ [][ScoreNext]_vars

\* ------------------------------------------------------------ the frame
\* PreUpdate: the engine's ui focus system writes the buttons' Interaction
\* (only when the value differs, which is what Changed<Interaction> sees).
Focus(b, i) ==
    [b EXCEPT !.interaction = i, !.changed = b.changed \/ (i # b.interaction)]

PreUpdate ==
    /\ pc = "PreUpdate"
    /\ IF menu.spawned
       THEN \E m \in MouseInputs :
                menu' = [menu EXCEPT !.start = Focus(@, m[1]), !.exit = Focus(@, m[2])]
       ELSE menu' = menu
    /\ pc' = "Transition"
    /\ keysRead' = {}
    /\ UNCHANGED <<state, nextState, cause, initialized, targets, nextId, crosshairs,
                   scoreDisplay, scoreboard, sbChanged, commands, ran,
                   streak, hitCount, missCount, hits, misses, appExit>>

\* setup_start_menu: a start and an exit button, OldInteraction(None);
\* freshly added components count as changed.
NewButton == [interaction |-> "None", old |-> "None", changed |-> TRUE]
SetupStartMenu == [spawned |-> TRUE, start |-> NewButton, exit |-> NewButton]

\* setup_game: one crosshair per column and the score text "Score: " "0".
SetupGameCrosshairs == Columns
SetupGameScoreText == <<"0">>

\* despawn_with::<Game> on the Target entities.
DespawnTargets_KeepTargets(ts) == ts

DespawnTargets(ts) == [i \in DOMAIN ts |-> NoTarget]

\* The state transition stage: on its first run the enter systems of the
\* initial state; afterwards, when NextState is present, the exit systems of
\* the current state, the change of CurrentState, the enter systems of the
\* new state.
StateTransition ==
    /\ pc = "Transition"
    /\ pc' = "SpawnTargets"
    /\ initialized' = TRUE
    /\ nextState' = "None"
    /\ cause' = "none"
    /\ IF ~initialized
       THEN /\ menu' = SetupStartMenu
            /\ UNCHANGED <<state, targets, crosshairs, scoreDisplay>>
       ELSE IF nextState = "None"
       THEN UNCHANGED <<state, menu, targets, crosshairs, scoreDisplay>>
       ELSE /\ state' = nextState
            /\ menu' = IF nextState = "StartMenu" THEN SetupStartMenu
                       ELSE IF state = "StartMenu" THEN NoMenu
                       ELSE menu
            /\ targets' = IF state = "Playing" THEN DespawnTargets(targets) ELSE targets
            /\ crosshairs' = IF nextState = "Playing" THEN SetupGameCrosshairs
                             ELSE IF state = "Playing" THEN {}
                             ELSE crosshairs
            /\ scoreDisplay' = IF nextState = "Playing" THEN {SetupGameScoreText}
                               ELSE IF state = "Playing" THEN {}
                               ELSE scoreDisplay
    /\ keysRead' = {}
    /\ UNCHANGED <<nextId, scoreboard, sbChanged, commands, ran,
                   streak, hitCount, missCount, hits, misses, appExit>>

\* run_in_state(s)
RunInState(s) == state = s

\* One run of spawn_targets inside the fixed-timestep stage (the stage runs
\* it once per elapsed 350 ms, so zero or more times in a frame); its
\* commands are applied when the inner stage ends.
SpawnTargets ==
    /\ pc = "SpawnTargets"
    /\ RunInState("Playing")
    /\ nextId <= MaxTargets
    /\ \E column \in Columns :
           targets' = [targets EXCEPT ![nextId] =
                          [alive |-> TRUE, column |-> column, y |-> SpawnY]]
    /\ nextId' = nextId + 1
    /\ keysRead' = {}
    /\ UNCHANGED <<state, nextState, cause, initialized, menu, crosshairs,
                   scoreDisplay, scoreboard, sbChanged, commands, pc, ran,
                   streak, hitCount, missCount, hits, misses, appExit>>

\* The fixed-timestep stage has no further step to run this frame.
SpawnStageDone ==
    /\ pc = "SpawnTargets"
    /\ pc' = "Update"
    /\ keysRead' = {}
    /\ UNCHANGED <<state, nextState, cause, initialized, menu, targets, nextId,
                   crosshairs, scoreDisplay, scoreboard, sbChanged, commands, ran,
                   streak, hitCount, missCount, hits, misses, appExit>>

CanRun(sys, s) ==
    /\ pc = "Update"
    /\ RunInState(s)
    /\ sys \in SystemsOf(s)
    /\ sys \notin ran

\* -------------------------------------------- Update stage, StartMenu set
\* close_on_esc (engine): Escape just pressed closes the window, which ends
\* the application.
CloseOnEsc ==
    /\ CanRun("close_on_esc", "StartMenu")
    /\ \E esc \in BOOLEAN : appExit' = (appExit \/ esc)
    /\ ran' = ran \cup {"close_on_esc"}
    /\ keysRead' = {}
    /\ UNCHANGED <<state, nextState, cause, initialized, menu, targets, nextId,
                   crosshairs, scoreDisplay, scoreboard, sbChanged, commands, pc,
                   streak, hitCount, missCount, hits, misses>>

\* button_interact::<B> on the one button marked B: the query yields the
\* button only when its Interaction changed; a release over the button
\* (Hovered after Clicked) returns true before OldInteraction is updated.
ButtonInteract(b) == b.changed /\ b.interaction = "Hovered" /\ b.old = "Clicked"

ButtonAfterInteract(b) ==
    IF ~b.changed THEN b
    ELSE IF ButtonInteract(b) THEN [b EXCEPT !.changed = FALSE]
    ELSE [b EXCEPT !.old = b.interaction, !.changed = FALSE]

\* The state on_start_button asks for.
OnStartButtonNext == "Playing"

\* on_start_button.run_if(button_interact::<StartButton>)
OnStartButton ==
    /\ CanRun("on_start_button", "StartMenu")
    /\ menu' = [menu EXCEPT !.start = ButtonAfterInteract(@)]
    /\ IF ButtonInteract(menu.start)
       THEN /\ commands' = [commands EXCEPT !.nextState = OnStartButtonNext]
            /\ cause' = "start_button"
       ELSE UNCHANGED <<commands, cause>>
    /\ ran' = ran \cup {"on_start_button"}
    /\ keysRead' = {}
    /\ UNCHANGED <<state, nextState, initialized, targets, nextId, crosshairs,
                   scoreDisplay, scoreboard, sbChanged, pc, streak,
                   hitCount, missCount, hits, misses, appExit>>

\* on_exit_button.run_if(button_interact::<ExitButton>)
OnExitButton ==
    /\ CanRun("on_exit_button", "StartMenu")
    /\ menu' = [menu EXCEPT !.exit = ButtonAfterInteract(@)]
    /\ appExit' = (appExit \/ ButtonInteract(menu.exit))
    /\ ran' = ran \cup {"on_exit_button"}
    /\ keysRead' = {}
    /\ UNCHANGED <<state, nextState, cause, initialized, targets, nextId, crosshairs,
                   scoreDisplay, scoreboard, sbChanged, commands, pc,
                   streak, hitCount, missCount, hits, misses>>

\* ---------------------------------------------- Update stage, Playing set
\* The state menu_on_esc asks for.
MenuOnEscNext_GameOver == "GameOverMenu"

MenuOnEscNext == "StartMenu"

\* menu_on_esc reads only the keyboard and only queues a command, so where
\* it runs among the other systems changes nothing; it is taken last.
MenuOnEsc ==
    /\ CanRun("menu_on_esc", "Playing")
    /\ PlayingSystems \ {"menu_on_esc"} \subseteq ran
    /\ \E esc \in BOOLEAN :
           IF esc
           THEN /\ commands' = [commands EXCEPT !.nextState = MenuOnEscNext]
                /\ cause' = "escape"
           ELSE UNCHANGED <<commands, cause>>
    /\ ran' = ran \cup {"menu_on_esc"}
    /\ keysRead' = {}
    /\ UNCHANGED <<state, nextState, initialized, menu, targets, nextId, crosshairs,
                   scoreDisplay, scoreboard, sbChanged, pc, streak,
                   hitCount, missCount, hits, misses, appExit>>

\* transform.translation.y -= 150.0 * time.delta_seconds()
Move_Stuck(y, dt) == y

Move(y, dt) == y - (Speed * dt) \div TicksPerSecond

\* transform.translation.y < -350.0
BelowMissLine(y) == y < MissY

\* update_targets: every target the query yields (despawns queued earlier in
\* this frame are not applied yet) is either missed or moved.
UpdateTargets ==
    /\ CanRun("update_targets", "Playing")
    /\ \E dt \in DeltaTicks :
         LET missed == {i \in AliveIds : BelowMissLine(targets[i].y)}
             n == Cardinality(missed)
         IN  /\ targets' = [i \in TargetIds |->
                               IF Alive(i) /\ i \notin missed
                               THEN [targets[i] EXCEPT !.y = Move(@, dt)]
                               ELSE targets[i]]
             /\ commands' = [commands EXCEPT !.despawn = @ \cup missed]
             /\ scoreboard' = ApplyMisses(scoreboard, n)
             /\ sbChanged' = (sbChanged \/ n > 0)
             /\ misses' = [i \in TargetIds |-> IF i \in missed THEN misses[i] + 1 ELSE misses[i]]
             /\ missCount' = missCount + n
             /\ streak' = IF n > 0 THEN 0 ELSE streak
    /\ ran' = ran \cup {"update_targets"}
    /\ keysRead' = {}
    /\ UNCHANGED <<state, nextState, cause, initialized, menu, nextId, crosshairs,
                   scoreDisplay, pc, hitCount, hits, appExit>>

\* The two keys of a column.
KeysOf(column) ==
    CASE column = "Yellow" -> {"A", "H"}
      [] column = "Red" -> {"S", "J"}
      [] column = "Blue" -> {"D", "K"}
      [] column = "Green" -> {"F", "L"}

\* transform.translation.y <= -280.0
InHitBand_Anywhere(y) == TRUE

InHitBand(y) == y <= HitLineY

\* The targets one block of shoot_targets hits.
HitIn(keys, column) ==
    IF keys \cap KeysOf(column) # {}
    THEN {i \in AliveIds : targets[i].column = column /\ InHitBand(targets[i].y)}
    ELSE {}

\* shoot_targets: the four blocks, Yellow, Red, Blue, Green.
ShootTargets ==
    /\ CanRun("shoot_targets", "Playing")
    /\ \E keys \in KeyInputs :
         LET hit == UNION {HitIn(keys, column) : column \in Columns}
             n == Cardinality(hit)
         IN  /\ keysRead' = keys
             /\ commands' = [commands EXCEPT !.despawn = @ \cup hit]
             /\ scoreboard' = ApplyHits(scoreboard, n)
             /\ sbChanged' = (sbChanged \/ n > 0)
             /\ hits' = [i \in TargetIds |-> IF i \in hit THEN hits[i] + 1 ELSE hits[i]]
             /\ hitCount' = hitCount + n
             /\ streak' = streak + n
    /\ ran' = ran \cup {"shoot_targets"}
    /\ UNCHANGED <<state, nextState, cause, initialized, menu, targets, nextId,
                   crosshairs, scoreDisplay, pc, missCount, misses, appExit>>

\* update_scoreboard: writes the score text only when the Scoreboard changed
\* since this system last ran.
UpdateScoreboard ==
    /\ CanRun("update_scoreboard", "Playing")
    /\ scoreDisplay' = IF sbChanged
                       THEN {ToString(scoreboard.score) : t \in scoreDisplay}
                       ELSE scoreDisplay
    /\ sbChanged' = FALSE
    /\ ran' = ran \cup {"update_scoreboard"}
    /\ keysRead' = {}
    /\ UNCHANGED <<state, nextState, cause, initialized, menu, targets, nextId,
                   crosshairs, scoreboard, commands, pc, streak,
                   hitCount, missCount, hits, misses, appExit>>

\* End of the Update stage: the queued commands are applied (a despawn of an
\* entity that is already gone has no effect), then the frame ends; the
\* runner stops on AppExit.
EndUpdate ==
    /\ pc = "Update"
    /\ ran = SystemsOf(state)
    /\ targets' = [i \in TargetIds |->
                      IF i \in commands.despawn THEN NoTarget ELSE targets[i]]
    /\ nextState' = IF commands.nextState # "None" THEN commands.nextState ELSE nextState
    /\ commands' = NoCommands
    /\ ran' = {}
    /\ keysRead' = {}
    /\ pc' = IF appExit THEN "Exited" ELSE "PreUpdate"
    /\ UNCHANGED <<state, cause, initialized, menu, nextId, crosshairs, scoreDisplay,
                   scoreboard, sbChanged, streak, hitCount, missCount, hits, misses,
                   appExit>>

Next ==
    \/ PreUpdate
    \/ StateTransition
    \/ SpawnTargets
    \/ SpawnStageDone
    \/ CloseOnEsc
    \/ OnStartButton
    \/ OnExitButton
    \/ MenuOnEsc
    \/ UpdateTargets
    \/ ShootTargets
    \/ UpdateScoreboard
    \/ EndUpdate

Spec == Init /\ [][Next]_vars

\* The engine's runner keeps running frames until AppExit.
LiveSpec == Spec /\ WF_vars(Next)

\* ------------------------------------------------------------------ claims
Min(a, b) == IF a < b THEN a ELSE b

HitStep == hitCount' # hitCount
MissStep == missCount' # missCount

\* C1: from the default scoreboard, after any sequence of hits and misses,
\* 0 <= combo <= 5.
C1_ComboInRange == scoreboard.combo >= 0 /\ scoreboard.combo <= 5

\* C1 witness: six hits in a row have been counted and the combo stands at 5.
C1_Witness == streak >= 6 /\ scoreboard.combo = 5

\* C2: the combo changes only through hit and miss; a hit raises it by one
\* below 5 and leaves it at 5 otherwise, a miss sets it to 0; so the combo is
\* min(5, number of hits since the most recent miss or the start).
C2_ComboRule ==
    /\ [][/\ HitStep => scoreboard'.combo =
                           IF scoreboard.combo < 5 THEN scoreboard.combo + 1 ELSE 5
          /\ MissStep => scoreboard'.combo = 0
          /\ scoreboard'.combo # scoreboard.combo => (HitStep \/ MissStep)]_vars
    /\ [](scoreboard.combo = Min(5, streak))

\* C2 witness: after a miss, more than five hits in a row were counted.
C2_Witness == missCount >= 1 /\ streak >= 6 /\ scoreboard.combo = 5

\* C3: a hit adds to the score exactly the combo as it stands once the hit is
\* counted, a value in 1..5; a hit never lowers the score.
C3_HitAddsNewCombo ==
    [][HitStep =>
          /\ scoreboard'.score = scoreboard.score + scoreboard'.combo
          /\ scoreboard'.combo \in 1..5
          /\ scoreboard'.score >= scoreboard.score]_vars

\* C3 witness: hits were counted at the cap and below it.
C3_Witness == hitCount >= 7 /\ scoreboard.combo = 5 /\ scoreboard.score >= 25

\* C4: a miss changes the score by -(combo + 1), combo being the combo held
\* when the miss occurred.
C4_MissCostsComboPlusOne ==
    [][MissStep => scoreboard'.score = scoreboard.score - (scoreboard.combo + 1)]_vars

\* C5: the game state starts as StartMenu and is always StartMenu or Playing
\* (never GameOverMenu); it leaves StartMenu only for Playing, on the start
\* button, and leaves Playing only for StartMenu, on an Escape press.
C5_StateFlow ==
    /\ state = "StartMenu"
    /\ [](state \in GameStates \ {"GameOverMenu"})
    /\ [][state' # state =>
             \/ state = "StartMenu" /\ state' = "Playing" /\ cause = "start_button"
             \/ state = "Playing" /\ state' = "StartMenu" /\ cause = "escape"]_vars

\* C5 witness: back in the start menu after a game in which a target spawned.
C5_Witness == state = "StartMenu" /\ menu.spawned /\ nextId > 1 /\ pc = "Update"

\* The two keys of each lane, as the claim names them.
C6_OwnKeys(column) ==
    IF column = "Yellow" THEN {"A", "H"}
    ELSE IF column = "Red" THEN {"S", "J"}
    ELSE IF column = "Blue" THEN {"D", "K"}
    ELSE {"F", "L"}

\* C6: a target is scored as a hit and queued for removal only by a step that
\* read a just-pressed key of the target's own lane while the target was at or
\* below the hit line (y <= -280).
C6_HitOnlyOwnLaneInBand ==
    [][\A i \in TargetIds :
          (hits'[i] # hits[i] \/ (HitStep /\ i \in commands'.despawn \ commands.despawn)) =>
              /\ Alive(i)
              /\ hits'[i] = hits[i] + 1
              /\ i \in commands'.despawn
              /\ keysRead' \cap C6_OwnKeys(targets[i].column) # {}
              /\ targets[i].y <= -280]_vars

\* C6 witness: a target was hit, and only hit.
C6_Witness == \E i \in TargetIds : hits[i] = 1 /\ misses[i] = 0 /\ ~Alive(i)

\* C7: each target is counted at most once: as one hit or as one miss, never
\* both, whatever the order of update_targets and shoot_targets in a frame.
C7_AtMostOneScoringEvent == \A i \in TargetIds : hits[i] + misses[i] <= 1

\* C8: targets are spawned only in Playing, and in StartMenu no target and no
\* other Game entity exists.
C8_GameEntitiesOnlyInPlaying ==
    /\ [](state = "StartMenu" =>
             AliveIds = {} /\ crosshairs = {} /\ scoreDisplay = {})
    /\ [][nextId' # nextId => state = "Playing" /\ state' = "Playing"]_vars

\* C8 witness: in the start menu after a game whose target was still in play
\* when the game was left.
C8_Witness ==
    /\ state = "StartMenu"
    /\ \E i \in TargetIds : i < nextId /\ hits[i] + misses[i] = 0

\* C9: in Playing, with frames advancing by a positive time, a target only
\* moves downward; a target that leaves play while the game stays in Playing
\* was hit or missed; and every target in play eventually leaves play.
C9_TargetsFallAndLeave ==
    /\ [][\A i \in TargetIds :
            /\ (Alive(i) /\ targets'[i].alive) => targets'[i].y <= targets[i].y
            /\ (Alive(i) /\ ~targets'[i].alive /\ state' = "Playing")
                   => hits[i] + misses[i] >= 1]_vars
    /\ \A i \in TargetIds : Alive(i) ~> ~Alive(i)

\* C9 witness: a target left play through a miss, never hit.
C9_Witness ==
    \E i \in TargetIds : ~Alive(i) /\ misses[i] = 1 /\ hits[i] = 0 /\ state = "Playing"

\* C10: in Playing, once update_scoreboard has run in a frame, the score
\* display shows Scoreboard.score, in every game session.
C10_DisplayShowsScore ==
    [][(state = "Playing" /\ "update_scoreboard" \in ran' \ ran) =>
          /\ scoreDisplay' # {}
          /\ \A text \in scoreDisplay' : text = ToString(scoreboard'.score)]_vars

====
